---- MODULE Spec2Model ----
(***************************************************************************)
(* Model of backend/services/export_service.py:                            *)
(*   ExportService.create_editable_pptx_with_recursive_analysis            *)
(*   ExportService._add_editable_elements_to_slide                         *)
(* The page analysis (a thread pool, one future per page), the slide       *)
(* building loop, and the recursive composition of an element tree into    *)
(* builder calls.                                                          *)
(* And of backend/services/image_editability/inpaint_providers.py:         *)
(*   DefaultInpaintProvider.inpaint_regions                                *)
(*   GenerativeEditInpaintProvider.inpaint_regions                         *)
(***************************************************************************)
EXTENDS Integers, Sequences, FiniteSets, TLC

VARIABLES
    pc,               \* position in create_editable_pptx_with_recursive_analysis / the engine
    image_paths,      \* argument: Option of a sequence of page paths
    editable_images,  \* argument, later the analysis results: Option of a sequence
    output_file,      \* argument: Option of a path
    max_workers,      \* argument: size of the thread pool
    futures,          \* idx -> state of the future submitted for image_paths[idx]
    results,          \* the index-addressed result slots (line 483)
    collected,        \* futures already yielded by as_completed
    builder,          \* TRUE once PPTXBuilder() was constructed
    slides,           \* number of slides added to the presentation
    page_idx,         \* page whose slide is being built (0: none)
    root_elements,    \* argument `elements` of the outermost call of _add_editable_elements_to_slide
    stack,            \* call stack of _add_editable_elements_to_slide
    scale_x, scale_y, \* scale factors, as <<numerator, denominator>>
    ops,              \* calls issued to the builder / slide, in order
    log,              \* elements visited by the loop at line 583, in order
    faults,           \* number of builder calls that raised so far
    files,            \* paths for which os.path.exists is true
    editability_service, \* TRUE once ImageEditabilityService(config) was constructed
    inpaint,          \* the running call of an InpaintProvider's inpaint_regions
    inpaint_calls,    \* the calls of inpaint_regions that returned, in order
    outcome           \* what the call gave its caller

vars == <<pc, image_paths, editable_images, output_file, max_workers, futures,
          results, collected, builder, slides, page_idx, root_elements, stack, scale_x,
          scale_y, ops, log, faults, files, editability_service,
                   inpaint, inpaint_calls, outcome>>

-----------------------------------------------------------------------------
(* Bounds of the model *)

\* longest list of sibling elements drawn freely for a direct engine call
MaxSiblings == 2
\* most builder calls that raise in one run
MaxFaults == 2
\* most pages in a batch
MaxPages == 3
\* largest thread pool tried
MaxPool == 2
\* most calls of inpaint_regions made on one provider
MaxCalls == 2

-----------------------------------------------------------------------------
(* Python values *)

\* Optional[T]: None is the empty tuple, a present value v is <<v>>
None == <<>>
Some(v) == <<v>>

\* no call of inpaint_regions is running
NoCall == [active |-> FALSE]

\* truth value of an Optional[str] holding a path: None and "" are false
TruthyPath(p) == IF p = None THEN FALSE ELSE p[1] # ""

\* text is a sequence of one-character strings
WhiteSpace == {" ", "\t", "\n"}

RECURSIVE LStrip(_)
LStrip(s) ==
    IF s = <<>> THEN <<>>
    ELSE IF Head(s) \in WhiteSpace THEN LStrip(Tail(s)) ELSE s

RECURSIVE RStrip(_)
RStrip(s) ==
    IF s = <<>> THEN <<>>
    ELSE IF s[Len(s)] \in WhiteSpace THEN RStrip(SubSeq(s, 1, Len(s) - 1)) ELSE s

\* mutant of Strip: the text is taken as it is
Strip_Keep(s) == s

\* str.strip()
Strip(s) == RStrip(LStrip(s))

\* truth value of an Optional[str] holding text: None and "" are false
TruthyText(c) == IF c = None THEN FALSE ELSE c[1] # <<>>

\* truth value of an Optional[list]: None and [] are false
TruthyList(l) == IF l = None THEN FALSE ELSE l[1] # <<>>

\* int(): truncation toward zero of the rational n / d, d > 0
IntTrunc(n, d) == IF n >= 0 THEN n \div d ELSE -((-n) \div d)

\* BBox value type
BBox(x0, y0, x1, y1) == [x0 |-> x0, y0 |-> y0, x1 |-> x1, y1 |-> y1]

\* BBox.area
BBoxArea(b) == (b.x1 - b.x0) * (b.y1 - b.y0)

\* os.path.exists
Exists(path) == path \in files

-----------------------------------------------------------------------------
(* _add_editable_elements_to_slide: the body of the loop, per element *)

\* max_child_coverage_ratio = 0.85, as the fraction 85 / 100
MaxChildCoverageNum == 85
MaxChildCoverageDen == 100

\* mutant of SelectBBox: bbox_global wins at every depth
SelectBBox_GlobalFirst(elem, depth) ==
    IF elem.bbox_global # None THEN elem.bbox_global[1] ELSE elem.bbox

\* mutant of SelectBBox: the local bbox at every depth
SelectBBox_LocalOnly(elem, depth) == elem.bbox

\* mutant of SelectBBox: below depth 0 an element without bbox_global gets an
\* empty box
SelectBBox_NoFallback(elem, depth) ==
    IF depth = 0 THEN elem.bbox
    ELSE IF elem.bbox_global # None THEN elem.bbox_global[1]
    ELSE BBox(0, 0, 0, 0)

\* the frame chosen for an element at a recursion depth
SelectBBox(elem, depth) ==
    IF depth = 0 THEN elem.bbox
    ELSE IF elem.bbox_global # None THEN elem.bbox_global[1] ELSE elem.bbox

\* bbox_list: the four coordinates scaled and truncated by int()
BBoxList(bbox, sx, sy) ==
    << IntTrunc(bbox.x0 * sx[1], sx[2]),
       IntTrunc(bbox.y0 * sy[1], sy[2]),
       IntTrunc(bbox.x1 * sx[1], sx[2]),
       IntTrunc(bbox.y1 * sy[1], sy[2]) >>

\* a call to the builder, before its bbox, slide and outcome are filled in
AddTextCall(text, level, align) ==
    [op |-> "add_text_element", text |-> text, image_path |-> "",
     text_level |-> level, align |-> align]
AddImageCall(path) ==
    [op |-> "add_image_element", text |-> <<>>, image_path |-> path,
     text_level |-> None, align |-> None]
AddPlaceholderCall ==
    [op |-> "add_image_placeholder", text |-> <<>>, image_path |-> "",
     text_level |-> None, align |-> None]

\* what one iteration does: at most one builder call, and whether it recurses
Plan(call, recurse) == [call |-> call, recurse |-> recurse]

\* elem_type in ['text', 'title']
TextPlan(elem) ==
    IF TruthyText(elem.content) /\ Strip(elem.content[1]) # <<>>
    THEN Plan(Some(AddTextCall(Strip(elem.content[1]),
                               IF elem.element_type = "title"
                               THEN Some("title") ELSE Some("default"),
                               None)),
              FALSE)
    ELSE Plan(None, FALSE)

\* mutant of TableCellPlan: a cell is placed like plain text
TableCellPlan_AsText(elem) == TextPlan(elem)

\* elem_type == 'table_cell'
TableCellPlan(elem) ==
    IF TruthyText(elem.content) /\ Strip(elem.content[1]) # <<>>
    THEN Plan(Some(AddTextCall(Strip(elem.content[1]), None, Some("center"))),
              FALSE)
    ELSE Plan(None, FALSE)

\* mutant of FlattenPlan: the picture is added without a look at the disk
FlattenPlan_NoExistsCheck(elem) ==
    IF TruthyPath(elem.image_path)
    THEN Plan(Some(AddImageCall(elem.image_path[1])), FALSE)
    ELSE Plan(Some(AddPlaceholderCall), FALSE)

\* the else branches at lines 667-681 and 729-743: the element as one picture
FlattenPlan(elem) ==
    IF TruthyPath(elem.image_path) /\ Exists(elem.image_path[1])
    THEN Plan(Some(AddImageCall(elem.image_path[1])), FALSE)
    ELSE Plan(Some(AddPlaceholderCall), FALSE)

\* lines 647-666 and 713-728: the inpainted background if its file exists,
\* then the children
RecursePlan(elem) ==
    IF Exists(elem.inpainted_background_path[1])
    THEN Plan(Some(AddImageCall(elem.inpainted_background_path[1])), TRUE)
    ELSE Plan(None, TRUE)

\* mutant of TablePlan: a table with a child of more than 85% of its area is
\* flattened
TablePlan_DominantChild(elem) ==
    IF /\ elem.children # <<>>
       /\ TruthyPath(elem.inpainted_background_path)
       /\ \A c \in 1..Len(elem.children) :
             100 * BBoxArea(elem.children[c].bbox) <= 85 * BBoxArea(elem.bbox)
    THEN RecursePlan(elem)
    ELSE FlattenPlan(elem)

\* elem_type == 'table'
TablePlan(elem) ==
    IF elem.children # <<>> /\ TruthyPath(elem.inpainted_background_path)
    THEN RecursePlan(elem)
    ELSE FlattenPlan(elem)

\* mutant of CoverageExceeds: a child at the threshold counts as dominant
CoverageExceeds_OrEqual(child_area, parent_area) ==
    IF parent_area > 0
    THEN child_area * MaxChildCoverageDen >= MaxChildCoverageNum * parent_area
    ELSE FALSE

\* coverage_ratio > max_child_coverage_ratio, the ratio being 0 when the
\* parent's area is not positive
CoverageExceeds(child_area, parent_area) ==
    IF parent_area > 0
    THEN child_area * MaxChildCoverageDen > MaxChildCoverageNum * parent_area
    ELSE FALSE

\* mutant of ChildBBox: the local bbox, whatever bbox_global holds
ChildBBox_LocalOnly(child) == child.bbox

\* the box whose area stands for a child
ChildBBox(child) ==
    IF child.bbox_global # None THEN child.bbox_global[1] ELSE child.bbox

\* has_dominant_child, the loop at lines 693-705
HasDominantChild(elem, bbox) ==
    LET parent_area == (bbox.x1 - bbox.x0) * (bbox.y1 - bbox.y0)
    IN  \E k \in 1..Len(elem.children) :
            CoverageExceeds(BBoxArea(ChildBBox(elem.children[k])), parent_area)

\* should_use_recursive_render
ShouldUseRecursiveRender(elem, bbox) ==
    IF elem.children # <<>> /\ TruthyPath(elem.inpainted_background_path)
    THEN ~HasDominantChild(elem, bbox)
    ELSE FALSE

\* elem_type in ['image', 'figure', 'chart']
ImagePlan(elem, bbox) ==
    IF ShouldUseRecursiveRender(elem, bbox)
    THEN RecursePlan(elem)
    ELSE FlattenPlan(elem)

TextTypes == {"text", "title"}
ImageTypes == {"image", "figure", "chart"}

\* mutant of SkipPlan: an element of another type is entered like a group
SkipPlan_Descend(elem) == Plan(None, elem.children # <<>>)

\* the else branch at lines 745-747: a debug line, nothing else
SkipPlan(elem) == Plan(None, FALSE)

\* the dispatch on elem_type
ElementPlan(elem, depth) ==
    IF elem.element_type \in TextTypes THEN TextPlan(elem)
    ELSE IF elem.element_type = "table_cell" THEN TableCellPlan(elem)
    ELSE IF elem.element_type = "table" THEN TablePlan(elem)
    ELSE IF elem.element_type \in ImageTypes
         THEN ImagePlan(elem, SelectBBox(elem, depth))
    ELSE SkipPlan(elem)

\* mutant of InTry: only the text calls are guarded
InTry_TextOnly(op) == op = "add_text_element"

\* the builder calls that sit inside a try / except Exception
InTry(op) == op \in {"add_text_element", "add_image_element", "add_picture"}

\* the builder calls that can raise (add_image_placeholder never fails)
BuilderMayRaise(op) == op # "add_image_placeholder"

-----------------------------------------------------------------------------
(* _add_editable_elements_to_slide: the loop and the recursion *)

\* one call of the function: its element list, the loop index, and the
\* arguments depth, scale_x and scale_y it was made with
Frame(elements, depth, sx, sy) ==
    [elements |-> elements, i |-> 1, depth |-> depth,
     scale_x |-> sx, scale_y |-> sy]

\* mutant of ChildScales: the recursive call falls back to the defaults
ChildScales_Default(sx, sy) == << <<1, 1>>, <<1, 1>> >>

\* the scale factors a recursive call is given: scale_x=scale_x, scale_y=scale_y
ChildScales(sx, sy) == <<sx, sy>>

Top == stack[Len(stack)]
Cur == Top.elements[Top.i]

\* the loop at line 583 has an element to process
HasCur == pc = "compose" /\ stack # <<>> /\ Top.i <= Len(Top.elements)

\* mutant of Advanced: the children are put off until the siblings are done
Advanced_SiblingsFirst(elem, depth, recurse) ==
    LET moved == [stack EXCEPT ![Len(stack)].i = @ + 1]
    IN  IF recurse
        THEN <<Frame(elem.children, depth + 1, Top.scale_x, Top.scale_y)>> \o moved
        ELSE moved

\* mutant of Advanced: no recursive call below the first level of children
Advanced_DepthCap(elem, depth, recurse) ==
    LET moved == [stack EXCEPT ![Len(stack)].i = @ + 1]
    IN  IF recurse /\ depth < 1
        THEN Append(moved, Frame(elem.children, depth + 1,
                                 Top.scale_x, Top.scale_y))
        ELSE moved

\* the stack after the iteration: the loop moves on, a recursive call sits on top
Advanced(elem, depth, recurse) ==
    LET moved == [stack EXCEPT ![Len(stack)].i = @ + 1]
        scales == ChildScales(Top.scale_x, Top.scale_y)
    IN  IF recurse
        THEN Append(moved, Frame(elem.children, depth + 1, scales[1], scales[2]))
        ELSE moved

\* an exception leaves the element body when the call that raised it is in no try
Escapes(op, ok) == ~ok /\ ~InTry(op)

\* mutant of RecurseAfter: no children under a background that was not placed
RecurseAfter_OnlyIfPlaced(recurse, ok) == recurse /\ ok

\* lines 650-666 and 715-728: the except clause only logs, the recursive call
\* follows whether the background was placed or not
RecurseAfter(recurse, ok) == recurse

\* one iteration: the frame's box, the log line, the call the plan names
Step(elem, depth, plan) ==
    LET bbox_list == BBoxList(SelectBBox(elem, depth), Top.scale_x, Top.scale_y)
        visit == Len(log) + 1
        Visited(recursed) ==
            Append(log, [slide |-> page_idx, depth |-> depth, elem |-> elem,
                         i |-> Top.i, n |-> Len(Top.elements),
                         bbox_list |-> bbox_list, recursed |-> recursed])
    IN  IF plan.call = None
        THEN /\ ops' = ops
             /\ faults' = faults
             /\ log' = Visited(plan.recurse)
             /\ stack' = Advanced(elem, depth, plan.recurse)
             /\ UNCHANGED <<pc, outcome>>
        ELSE \E ok \in BOOLEAN :
             LET c == plan.call[1] IN
             /\ ok \/ (BuilderMayRaise(c.op) /\ faults < MaxFaults)
             /\ ops' = Append(ops,
                    [op |-> c.op, slide |-> page_idx, text |-> c.text,
                     image_path |-> c.image_path, bbox |-> bbox_list,
                     text_level |-> c.text_level, align |-> c.align,
                     visit |-> visit, ok |-> ok])
             /\ faults' = IF ok THEN faults ELSE faults + 1
             /\ IF Escapes(c.op, ok)
                THEN /\ log' = Visited(FALSE)
                     /\ stack' = <<>>
                     /\ pc' = "raised"
                     /\ outcome' = "Exception"
                ELSE /\ log' = Visited(RecurseAfter(plan.recurse, ok))
                     /\ stack' = Advanced(elem, depth,
                                          RecurseAfter(plan.recurse, ok))
                     /\ UNCHANGED <<pc, outcome>>

CallerVars == <<image_paths, editable_images, output_file, max_workers,
                futures, results, collected, builder, slides, page_idx,
                root_elements, scale_x, scale_y, files, editability_service,
                   inpaint, inpaint_calls>>

AddText ==
    /\ HasCur
    /\ Cur.element_type \in TextTypes
    /\ Step(Cur, Top.depth, TextPlan(Cur))
    /\ UNCHANGED CallerVars

AddTableCell ==
    /\ HasCur
    /\ Cur.element_type = "table_cell"
    /\ Step(Cur, Top.depth, TableCellPlan(Cur))
    /\ UNCHANGED CallerVars

AddTable ==
    /\ HasCur
    /\ Cur.element_type = "table"
    /\ Step(Cur, Top.depth, TablePlan(Cur))
    /\ UNCHANGED CallerVars

AddImage ==
    /\ HasCur
    /\ Cur.element_type \in ImageTypes
    /\ Step(Cur, Top.depth, ImagePlan(Cur, SelectBBox(Cur, Top.depth)))
    /\ UNCHANGED CallerVars

SkipUnknown ==
    /\ HasCur
    /\ Cur.element_type \notin TextTypes \cup ImageTypes \cup {"table", "table_cell"}
    /\ Step(Cur, Top.depth, SkipPlan(Cur))
    /\ UNCHANGED CallerVars

\* the loop of one call is over: the call returns to the one that made it
Return ==
    /\ pc = "compose"
    /\ stack # <<>>
    /\ Top.i > Len(Top.elements)
    /\ stack' = SubSeq(stack, 1, Len(stack) - 1)
    /\ UNCHANGED <<pc, ops, log, faults, outcome>>
    /\ UNCHANGED CallerVars

Compose == AddText \/ AddTableCell \/ AddTable \/ AddImage \/ SkipUnknown \/ Return

\* the calls a run of the function issues when no call raises: per element
\* its own call, then, where it recurses, those of its children
RECURSIVE ComposeCalls(_, _)
ComposeCalls(elems, depth) ==
    IF elems = <<>> THEN <<>>
    ELSE LET elem == Head(elems)
             plan == ElementPlan(elem, depth)
             own == IF plan.call = None THEN <<>>
                    ELSE LET c == plan.call[1] IN
                         << [op |-> c.op, text |-> c.text,
                             image_path |-> c.image_path,
                             bbox |-> BBoxList(SelectBBox(elem, depth),
                                               scale_x, scale_y),
                             text_level |-> c.text_level, align |-> c.align] >>
             below == IF plan.recurse
                      THEN ComposeCalls(elem.children, depth + 1)
                      ELSE <<>>
         IN  own \o below \o ComposeCalls(Tail(elems), depth)

-----------------------------------------------------------------------------
(* Inputs: element trees, files, scale factors *)

\* deepest nesting of parents drawn for a direct engine call
MaxNest == 2

EditableElement(type, content, bbox, bbox_global, image_path, inpainted, children) ==
    [element_type |-> type, content |-> content, bbox |-> bbox,
     bbox_global |-> bbox_global, image_path |-> image_path,
     inpainted_background_path |-> inpainted, children |-> children]

\* the files on disk
ExistingFiles == {"img.png", "bg.png", "clean.png", "page1.png", "page2.png",
                  "page3.png", "page4.png"}

\* boxes: a parent of area 1000, children of area 849, 850 and 851, a box of
\* area 0, and a small box in a local and in the global frame
BoxP == BBox(0, 0, 40, 25)
BoxQ == BBox(100, 100, 140, 125)
Box849 == BBox(0, 0, 3, 283)
Box850 == BBox(0, 0, 25, 34)
Box851 == BBox(0, 0, 23, 37)
BoxZero == BBox(7, 9, 7, 13)
BoxL == BBox(3, 5, 8, 11)
BoxG == BBox(103, 205, 109, 212)
\* a box that starts left of and above the page origin
BoxNeg == BBox(-3, -5, 8, 11)

TextHi == <<"h", "i">>
TextPadded == <<" ", "h", "i", "\n">>
TextBlank == <<" ", "\t">>

Contents == {None, Some(<<>>), Some(TextBlank), Some(TextHi), Some(TextPadded)}

Leaf(type, content, bbox, bbox_global) ==
    EditableElement(type, content, bbox, bbox_global, None, None, <<>>)

\* leaves of every text-bearing and unknown type
Leaves ==
    { Leaf(t, c, BoxL, g) :
        t \in {"text", "title", "table_cell", "unknown"},
        c \in Contents, g \in {None, Some(BoxG)} }
      \cup { Leaf(t, Some(TextHi), BoxNeg, None) : t \in {"text", "table_cell"} }

\* children that differ in the area of their boxes
Kid849 == Leaf("text", Some(TextHi), Box849, None)
Kid850 == Leaf("text", Some(TextHi), Box850, None)
Kid851 == Leaf("text", Some(TextHi), Box851, None)
KidGlobal851 == Leaf("table_cell", Some(TextHi), BoxL, Some(Box851))
KidLocal851 == Leaf("table_cell", Some(TextHi), Box851, Some(BoxL))

\* children without text to place
KidBlank == Leaf("table_cell", Some(TextBlank), BoxL, None)
KidAbsent == Leaf("title", None, BoxL, None)
KidEmpty == Leaf("text", Some(<<>>), BoxL, None)
\* a child that reaches over the origin of its parent
KidNeg == Leaf("text", Some(TextHi), BoxNeg, None)

KidLists == { <<>>, <<Kid849>>, <<Kid850>>, <<Kid851>>, <<KidGlobal851>>,
              <<KidLocal851>>, <<Kid849, Kid851>>, <<Kid849, KidLocal851>>,
              <<KidBlank, KidAbsent, KidEmpty, Kid849, KidNeg>> }

VisualTypes == {"table", "image", "figure", "chart"}
ImagePaths == {None, Some("img.png"), Some("lost.png")}
BackgroundPaths == {None, Some(""), Some("bg.png"), Some("nobg.png")}

\* parents one level deep
Visuals ==
    { EditableElement(t, None, b, None, img, bg, kids) :
        t \in VisualTypes, b \in {BoxP, BoxZero}, img \in ImagePaths,
        bg \in BackgroundPaths, kids \in KidLists }

\* the box of a parent nested n levels, in its local and in the global frame:
\* a parent covers a quarter of the parent one level up, or less
NestBox(n) == BBox(0, 0, 20 * n, 10 * n)
NestBoxGlobal(n) == BBox(100, 100, 100 + 20 * n, 100 + 10 * n)

\* parents nested n levels, every level holding a leaf and the next level
RECURSIVE Nest(_)
Nest(n) ==
    IF n = 0
    THEN { Leaf("text", Some(TextPadded), BoxL, Some(BoxG)),
           Leaf("table_cell", Some(TextHi), BoxL, None) }
    ELSE { EditableElement(t, None, NestBox(n), g, Some("img.png"),
                           Some("bg.png"),
                           <<Leaf("title", Some(TextHi), BoxL, Some(BoxG)), k>>) :
             t \in {"table", "image"}, g \in {None, Some(NestBoxGlobal(n))},
             k \in Nest(n - 1) }

\* elements drawn freely as siblings
Siblings ==
    { Leaf("text", Some(TextPadded), BoxL, Some(BoxG)),
      Leaf("text", Some(TextBlank), BoxL, None),
      Leaf("unknown", Some(TextHi), BoxL, None),
      EditableElement("table", None, BoxP, None, Some("img.png"),
                      Some("bg.png"), <<KidGlobal851, Kid849>>),
      EditableElement("image", None, BoxP, None, Some("img.png"),
                      Some("bg.png"), <<Kid849>>),
      EditableElement("chart", None, BoxP, None, Some("img.png"),
                      Some("bg.png"), <<KidGlobal851>>) }

\* elements that are no table, image, figure or chart and yet carry children,
\* a picture and an inpainted background
Childed ==
    { EditableElement(t, c, BoxL, None, Some("img.png"), Some("bg.png"),
                      <<Kid849>>) :
        t \in {"text", "title", "table_cell", "unknown", "group"},
        c \in {None, Some(TextHi)} }

\* a table whose children carry children of their own
TableOfChilded ==
    EditableElement("table", None, BoxP, None, Some("img.png"), Some("bg.png"),
        << EditableElement("group", None, BoxL, None, Some("img.png"),
                           Some("bg.png"), <<Kid849>>),
           EditableElement("table_cell", Some(TextHi), BoxL, None, None,
                           Some("bg.png"), <<Kid850>>),
           Kid851 >>)

SeqsUpTo(S, n) == UNION { [1..k -> S] : k \in 0..n }

\* the element lists handed to a direct call of the engine
ElementLists ==
    SeqsUpTo(Siblings, MaxSiblings)
      \cup { <<e>> : e \in Leaves \cup Visuals \cup Nest(MaxNest) }
      \cup { <<e, Kid849>> : e \in Childed \cup {TableOfChilded} }

\* pairs (scale_x, scale_y) of scale factors, each a fraction
ScalePairs == { << <<1, 1>>, <<1, 1>> >>,
                << <<1, 2>>, <<3, 2>> >>,
                << <<3, 2>>, <<1, 2>> >> }

-----------------------------------------------------------------------------
(* A direct call _add_editable_elements_to_slide(builder, slide, elements,
   scale_x, scale_y, depth=0) *)

InitCompose ==
    /\ pc = "compose"
    /\ image_paths = None
    /\ editable_images = None
    /\ output_file = None
    /\ max_workers = 0
    /\ futures = <<>>
    /\ results = <<>>
    /\ collected = {}
    /\ builder = TRUE
    /\ slides = 1
    /\ page_idx = 0
    /\ root_elements \in ElementLists
    /\ \E pair \in ScalePairs : scale_x = pair[1] /\ scale_y = pair[2]
    /\ stack = <<Frame(root_elements, 0, scale_x, scale_y)>>
    /\ ops = <<>>
    /\ log = <<>>
    /\ faults = 0
    /\ files = ExistingFiles
    /\ editability_service = FALSE
    /\ inpaint = NoCall
    /\ inpaint_calls = <<>>
    /\ outcome = "running"

\* the outermost call returns to its caller
ComposeDone ==
    /\ pc = "compose"
    /\ page_idx = 0
    /\ stack = <<>>
    /\ pc' = "returned"
    /\ outcome' = "None"
    /\ UNCHANGED <<stack, ops, log, faults>>
    /\ UNCHANGED CallerVars

NextCompose == Compose \/ ComposeDone

SpecCompose == InitCompose /\ [][NextCompose]_vars

\* a direct call that leaves scale_x and scale_y at their defaults of 1.0
InitComposeUnscaled ==
    /\ InitCompose
    /\ scale_x = <<1, 1>>
    /\ scale_y = <<1, 1>>

\* the interpreter runs the next statement of the call as long as there is one
SpecComposeFair ==
    InitComposeUnscaled /\ [][NextCompose]_vars /\ WF_vars(NextCompose)

-----------------------------------------------------------------------------
(* create_editable_pptx_with_recursive_analysis *)

\* slide_width_pixels, slide_height_pixels
SlideWidthPixels == 1920
SlideHeightPixels == 1080

EditableImage(image_path, clean_background, elements) ==
    [image_path |-> image_path, clean_background |-> clean_background,
     elements |-> elements]

PageNames == <<"page1.png", "page2.png", "page3.png", "page4.png">>

\* the image_paths arguments tried: absent, empty, the first n pages, and two
\* pages in reverse order
ImagePathArgs ==
    {None, Some(<<>>), Some(<<PageNames[2], PageNames[1]>>)}
      \cup { Some(SubSeq(PageNames, 1, n)) : n \in 1..MaxPages }

PageTable ==
    EditableElement("table", None, BoxP, None, Some("img.png"), Some("bg.png"),
                    <<KidGlobal851>>)

PageImage ==
    EditableElement("image", None, BoxQ, None, Some("lost.png"), None, <<>>)

\* what make_image_editable can return for a page
PageResults(img_path) ==
    { EditableImage(img_path, Some("clean.png"), <<>>),
      EditableImage(img_path, None,
                    <<Leaf("title", Some(TextPadded), BoxL, Some(BoxG)),
                      Leaf("unknown", None, BoxL, None)>>),
      EditableImage(img_path, Some("noclean.png"), <<PageTable, PageImage>>) }

\* the editable_images arguments tried
EditableImagesArgs ==
    { None, Some(<<>>),
      Some(<<EditableImage("page2.png", Some("clean.png"), <<PageTable>>),
             EditableImage("page1.png", Some(""), <<>>)>>) }

\* mutant of ResultSlot: results appended in the order of completion
ResultSlot_Arrival(idx) == Cardinality(collected) + 1

\* the slot a finished future's result is stored in
ResultSlot(idx) == idx

\* mutant of ResultRaises: the failure of a page is swallowed
ResultRaises_Never(future) == FALSE

\* future.result() raises what the worker raised
ResultRaises(future) == future.exc

Init ==
    /\ pc = "start"
    /\ image_paths \in ImagePathArgs
    /\ editable_images \in EditableImagesArgs
    /\ output_file \in {None, Some("out.pptx")}
    /\ max_workers \in 1..MaxPool
    /\ futures = <<>>
    /\ results = <<>>
    /\ collected = {}
    /\ builder = FALSE
    /\ slides = 0
    /\ page_idx = 0
    /\ root_elements = <<>>
    /\ stack = <<>>
    /\ scale_x = <<1, 1>>
    /\ scale_y = <<1, 1>>
    /\ ops = <<>>
    /\ log = <<>>
    /\ faults = 0
    /\ files = ExistingFiles
    /\ editability_service = FALSE
    /\ inpaint = NoCall
    /\ inpaint_calls = <<>>
    /\ outcome = "running"

EngineVars == <<root_elements, stack, ops, log, faults>>

\* mutant of NeedsAnalysis: an empty list counts as no list
NeedsAnalysis_Falsy(given) == ~TruthyList(given)

\* line 456: `if editable_images is not None` uses the list, else it is built
NeedsAnalysis(given) == given = None

\* line 456: the analysis results were handed in
UseGiven ==
    /\ pc = "start"
    /\ ~NeedsAnalysis(editable_images)
    /\ pc' = "build"
    /\ UNCHANGED <<image_paths, editable_images, output_file, max_workers,
                   futures, results, collected, builder, slides, page_idx,
                   scale_x, scale_y, files, editability_service,
                   inpaint, inpaint_calls, outcome>>
    /\ UNCHANGED EngineVars

\* lines 459-460: neither argument
RaiseValueError ==
    /\ pc = "start"
    /\ NeedsAnalysis(editable_images)
    /\ ~TruthyList(image_paths)
    /\ pc' = "raised"
    /\ outcome' = "ValueError"
    /\ UNCHANGED <<image_paths, editable_images, output_file, max_workers,
                   futures, results, collected, builder, slides, page_idx,
                   scale_x, scale_y, files, editability_service,
                   inpaint, inpaint_calls>>
    /\ UNCHANGED EngineVars

\* lines 465-483: the service, one future per page, the result slots
SubmitAll ==
    /\ pc = "start"
    /\ NeedsAnalysis(editable_images)
    /\ TruthyList(image_paths)
    /\ editability_service' = TRUE
    /\ futures' = [idx \in 1..Len(image_paths[1]) |->
                     [img_path |-> image_paths[1][idx], state |-> "pending",
                      result |-> None, exc |-> FALSE]]
    /\ results' = [idx \in 1..Len(image_paths[1]) |-> None]
    /\ pc' = "collect"
    /\ UNCHANGED <<image_paths, editable_images, output_file, max_workers,
                   collected, builder, slides, page_idx, scale_x, scale_y,
                   files, inpaint, inpaint_calls, outcome>>
    /\ UNCHANGED EngineVars

Running == { idx \in DOMAIN futures : futures[idx].state = "running" }
Pending == { idx \in DOMAIN futures : futures[idx].state = "pending" }

\* mutant of PoolHasIdleThread: a thread for every work item
PoolHasIdleThread_Always(running, workers) == TRUE

\* ThreadPoolExecutor(max_workers=max_workers): a work item starts only on one
\* of max_workers threads
PoolHasIdleThread(running, workers) == running < workers

\* a pool thread takes the oldest queued work item
WorkerStart(idx) ==
    /\ pc \in {"collect", "unwind"}
    /\ idx \in Pending
    /\ \A j \in Pending : idx <= j
    /\ PoolHasIdleThread(Cardinality(Running), max_workers)
    /\ futures' = [futures EXCEPT ![idx].state = "running"]
    /\ UNCHANGED <<pc, image_paths, editable_images, output_file, max_workers,
                   results, collected, builder, slides, page_idx, scale_x,
                   scale_y, files, editability_service,
                   inpaint, inpaint_calls, outcome>>
    /\ UNCHANGED EngineVars

\* make_image_editable(img_path) returns
WorkerFinish(idx) ==
    /\ pc \in {"collect", "unwind"}
    /\ idx \in Running
    /\ \E r \in PageResults(futures[idx].img_path) :
         futures' = [futures EXCEPT ![idx].state = "done",
                                    ![idx].result = Some(r)]
    /\ UNCHANGED <<pc, image_paths, editable_images, output_file, max_workers,
                   results, collected, builder, slides, page_idx, scale_x,
                   scale_y, files, editability_service,
                   inpaint, inpaint_calls, outcome>>
    /\ UNCHANGED EngineVars

\* make_image_editable(img_path) raises
WorkerRaise(idx) ==
    /\ pc \in {"collect", "unwind"}
    /\ idx \in Running
    /\ futures' = [futures EXCEPT ![idx].state = "done", ![idx].exc = TRUE]
    /\ UNCHANGED <<pc, image_paths, editable_images, output_file, max_workers,
                   results, collected, builder, slides, page_idx, scale_x,
                   scale_y, files, editability_service,
                   inpaint, inpaint_calls, outcome>>
    /\ UNCHANGED EngineVars

\* lines 484-487: as_completed yields a finished future, its result goes to its slot
Collect(idx) ==
    /\ pc = "collect"
    /\ idx \in DOMAIN futures
    /\ idx \notin collected
    /\ futures[idx].state = "done"
    /\ ~ResultRaises(futures[idx])
    /\ results' = [results EXCEPT ![ResultSlot(idx)] = futures[idx].result]
    /\ collected' = collected \cup {idx}
    /\ UNCHANGED <<pc, image_paths, editable_images, output_file, max_workers,
                   futures, builder, slides, page_idx, scale_x, scale_y,
                   files, editability_service,
                   inpaint, inpaint_calls, outcome>>
    /\ UNCHANGED EngineVars

\* lines 488-490: future.result() raises, the exception is raised again
CollectRaise(idx) ==
    /\ pc = "collect"
    /\ idx \in DOMAIN futures
    /\ idx \notin collected
    /\ futures[idx].state = "done"
    /\ ResultRaises(futures[idx])
    /\ collected' = collected \cup {idx}
    /\ pc' = "unwind"
    /\ UNCHANGED <<image_paths, editable_images, output_file, max_workers,
                   futures, results, builder, slides, page_idx, scale_x,
                   scale_y, files, editability_service,
                   inpaint, inpaint_calls, outcome>>
    /\ UNCHANGED EngineVars

\* mutant of ShutdownComplete: the with block does not wait for its workers
ShutdownComplete_NoWait(fs) == TRUE

\* ThreadPoolExecutor.__exit__ is shutdown(wait=True): it returns when every
\* submitted work item has run to its end; it cancels none
ShutdownComplete(fs) == \A idx \in DOMAIN fs : fs[idx].state = "done"

\* the with block is left by the exception: shutdown(wait=True), then the
\* exception reaches the caller
ExecutorExitRaise ==
    /\ pc = "unwind"
    /\ ShutdownComplete(futures)
    /\ pc' = "raised"
    /\ outcome' = "Exception"
    /\ UNCHANGED <<image_paths, editable_images, output_file, max_workers,
                   futures, results, collected, builder, slides, page_idx,
                   scale_x, scale_y, files, editability_service,
                   inpaint, inpaint_calls>>
    /\ UNCHANGED EngineVars

\* editable_images = results: the entries of the slots, None where a slot was
\* never filled
Slots(res) == [idx \in DOMAIN res |-> IF res[idx] = None THEN None ELSE res[idx][1]]

\* line 492 and the end of the with block
ExecutorExit ==
    /\ pc = "collect"
    /\ collected = DOMAIN futures
    /\ editable_images' = Some(Slots(results))
    /\ pc' = "build"
    /\ UNCHANGED <<image_paths, output_file, max_workers, futures, results,
                   collected, builder, slides, page_idx, scale_x, scale_y,
                   files, editability_service,
                   inpaint, inpaint_calls, outcome>>
    /\ UNCHANGED EngineVars

\* lines 497-499
CreateBuilder ==
    /\ pc = "build"
    /\ builder' = TRUE
    /\ pc' = "pages"
    /\ UNCHANGED <<image_paths, editable_images, output_file, max_workers,
                   futures, results, collected, slides, page_idx, scale_x,
                   scale_y, files, editability_service,
                   inpaint, inpaint_calls, outcome>>
    /\ UNCHANGED EngineVars

\* mutant of BackgroundPath: clean_background is used without looking for its file
BackgroundPath_NoExistsCheck(editable_img) ==
    IF TruthyPath(editable_img.clean_background)
    THEN editable_img.clean_background[1]
    ELSE editable_img.image_path

\* the picture a page's slide gets as its background
BackgroundPath(editable_img) ==
    IF TruthyPath(editable_img.clean_background)
       /\ Exists(editable_img.clean_background[1])
    THEN editable_img.clean_background[1]
    ELSE editable_img.image_path

\* mutant of BackgroundOps: the original image is added under every background
BackgroundOps_Both(editable_img, slide, ok) ==
    LET pic(path) ==
            [op |-> "add_picture", slide |-> slide, text |-> <<>>,
             image_path |-> path,
             bbox |-> <<0, 0, SlideWidthPixels, SlideHeightPixels>>,
             text_level |-> None, align |-> None, visit |-> 0, ok |-> ok]
    IN  << pic(editable_img.image_path), pic(BackgroundPath(editable_img)) >>

\* the background picture of a slide: slide.shapes.add_picture at the origin,
\* as wide and as high as the slide
BackgroundOps(editable_img, slide, ok) ==
    << [op |-> "add_picture", slide |-> slide, text |-> <<>>,
        image_path |-> BackgroundPath(editable_img),
        bbox |-> <<0, 0, SlideWidthPixels, SlideHeightPixels>>,
        text_level |-> None, align |-> None, visit |-> 0, ok |-> ok] >>

\* lines 502-546: a blank slide, its background picture, then the engine
BuildPage ==
    /\ pc = "pages"
    /\ page_idx < Len(editable_images[1])
    /\ LET editable_img == editable_images[1][page_idx + 1] IN
       \E ok \in BOOLEAN :
         /\ ok \/ faults < MaxFaults
         /\ page_idx' = page_idx + 1
         /\ slides' = slides + 1
         /\ ops' = ops \o BackgroundOps(editable_img, page_idx + 1, ok)
         /\ faults' = IF ok THEN faults ELSE faults + 1
         /\ root_elements' = editable_img.elements
         /\ IF Escapes("add_picture", ok)
            THEN /\ pc' = "raised"
                 /\ outcome' = "Exception"
                 /\ stack' = <<>>
            ELSE /\ pc' = "compose"
                 /\ stack' = <<Frame(editable_img.elements, 0, <<1, 1>>, <<1, 1>>)>>
                 /\ UNCHANGED outcome
    /\ UNCHANGED <<image_paths, editable_images, output_file, max_workers,
                   futures, results, collected, builder, scale_x, scale_y,
                   files, editability_service,
                   inpaint, inpaint_calls, log>>

\* the engine returned: line 548
PageDone ==
    /\ pc = "compose"
    /\ page_idx > 0
    /\ stack = <<>>
    /\ pc' = "pages"
    /\ UNCHANGED <<image_paths, editable_images, output_file, max_workers,
                   futures, results, collected, builder, slides, page_idx,
                   scale_x, scale_y, files, editability_service,
                   inpaint, inpaint_calls, outcome>>
    /\ UNCHANGED EngineVars

\* lines 551-554
Save ==
    /\ pc = "pages"
    /\ page_idx = Len(editable_images[1])
    /\ TruthyPath(output_file)
    /\ files' = files \cup {output_file[1]}
    /\ outcome' = "None"
    /\ pc' = "done"
    /\ UNCHANGED <<image_paths, editable_images, output_file, max_workers,
                   futures, results, collected, builder, slides, page_idx,
                   scale_x, scale_y, editability_service,
                   inpaint, inpaint_calls>>
    /\ UNCHANGED EngineVars

\* lines 555-558
ToBytes ==
    /\ pc = "pages"
    /\ page_idx = Len(editable_images[1])
    /\ ~TruthyPath(output_file)
    /\ outcome' = "bytes"
    /\ pc' = "done"
    /\ UNCHANGED <<image_paths, editable_images, output_file, max_workers,
                   futures, results, collected, builder, slides, page_idx,
                   scale_x, scale_y, files, editability_service,
                   inpaint, inpaint_calls>>
    /\ UNCHANGED EngineVars

Analyse ==
    \/ SubmitAll
    \/ \E idx \in 1..Len(PageNames) :
         \/ WorkerStart(idx)
         \/ WorkerFinish(idx)
         \/ WorkerRaise(idx)
         \/ Collect(idx)
         \/ CollectRaise(idx)
    \/ ExecutorExit
    \/ ExecutorExitRaise

Build == CreateBuilder \/ BuildPage \/ PageDone \/ Save \/ ToBytes

Next == UseGiven \/ RaiseValueError \/ Analyse \/ Build \/ Compose

Spec == Init /\ [][Next]_vars

-----------------------------------------------------------------------------
(* Properties of the composition engine, checked under SpecCompose *)

\* the builder calls issued while the loop was at the k-th visited element
OpsOfVisit(k) == { j \in 1..Len(ops) : ops[j].visit = k }

\* C1: for every element processed at depth 0, the bbox passed to the builder
\* is the element's bbox, scaled; bbox_global is not used, even when it is
\* populated and differs from bbox.
C1_Depth0UsesBBox ==
    \A k \in 1..Len(log) :
        log[k].depth = 0 =>
            /\ log[k].bbox_list = BBoxList(log[k].elem.bbox, scale_x, scale_y)
            /\ \A j \in OpsOfVisit(k) : ops[j].bbox = log[k].bbox_list

\* a call was issued for a depth-0 element whose bbox_global is populated and
\* scales to other coordinates than its bbox
C1_Witness ==
    \E k \in 1..Len(log) :
        /\ log[k].depth = 0
        /\ log[k].elem.bbox_global # None
        /\ BBoxList(log[k].elem.bbox_global[1], scale_x, scale_y)
             # BBoxList(log[k].elem.bbox, scale_x, scale_y)
        /\ OpsOfVisit(k) # {}

\* C2: for every element processed at depth > 0 that carries a populated
\* bbox_global, the bbox passed to the builder is the element's bbox_global,
\* scaled, and not its local bbox.
C2_NestedUsesBBoxGlobal ==
    \A k \in 1..Len(log) :
        (log[k].depth > 0 /\ log[k].elem.bbox_global # None) =>
            /\ log[k].bbox_list
                 = BBoxList(log[k].elem.bbox_global[1], scale_x, scale_y)
            /\ \A j \in OpsOfVisit(k) : ops[j].bbox = log[k].bbox_list

\* calls were issued at depth 1 and at depth 2 for elements whose bbox_global
\* is populated and scales to other coordinates than their bbox, below a table
\* and below an image
C2_Witness ==
    /\ \A d \in 1..2 : \E k \in 1..Len(log) :
        /\ log[k].depth = d
        /\ log[k].elem.bbox_global # None
        /\ BBoxList(log[k].elem.bbox_global[1], scale_x, scale_y)
             # BBoxList(log[k].elem.bbox, scale_x, scale_y)
        /\ OpsOfVisit(k) # {}
    /\ \E k \in 1..Len(log) : log[k].recursed /\ log[k].elem.element_type = "table"
    /\ \E k \in 1..Len(log) : log[k].recursed /\ log[k].elem.element_type = "image"


\* the visited element is an image, figure or chart (types) with children and
\* an inpainted background whose file exists
HasBackground(k, types) ==
    /\ log[k].elem.element_type \in types
    /\ log[k].elem.children # <<>>
    /\ log[k].elem.inpainted_background_path # None
    /\ log[k].elem.inpainted_background_path[1] \in files

\* the visited element has children and an inpainted_background_path that is
\* set and names no file
BackgroundFileMissing(k, types) ==
    /\ log[k].elem.element_type \in types
    /\ log[k].elem.children # <<>>
    /\ log[k].elem.inpainted_background_path # None
    /\ log[k].elem.inpainted_background_path[1] # ""
    /\ log[k].elem.inpainted_background_path[1] \notin files

\* the area of the box the visited element is placed with
PlacedArea(k) ==
    LET e == log[k].elem
        b == IF log[k].depth > 0 /\ e.bbox_global # None
             THEN e.bbox_global[1] ELSE e.bbox
    IN  (b.x1 - b.x0) * (b.y1 - b.y0)

\* the area of a child: of its bbox_global when it has one, else of its bbox
AreaOfChild(c) ==
    LET b == IF c.bbox_global # None THEN c.bbox_global[1] ELSE c.bbox
    IN  (b.x1 - b.x0) * (b.y1 - b.y0)

\* the visited element was flattened: one call for it, add-image of its
\* image_path if that file exists and else add-placeholder, and no recursion
IsFlattened(k) ==
    /\ ~log[k].recursed
    /\ \E j \in 1..Len(ops) :
         /\ OpsOfVisit(k) = {j}
         /\ IF log[k].elem.image_path # None
               /\ log[k].elem.image_path[1] \in files
            THEN /\ ops[j].op = "add_image_element"
                 /\ ops[j].image_path = log[k].elem.image_path[1]
            ELSE ops[j].op = "add_image_placeholder"
    /\ k < Len(log) => log[k + 1].depth <= log[k].depth

\* the visited element was composed recursively: one call for it, add-image of
\* its inpainted background, and its children next, one level deeper
IsRecursive(k) ==
    /\ log[k].recursed
    /\ \E j \in 1..Len(ops) :
         /\ OpsOfVisit(k) = {j}
         /\ ops[j].op = "add_image_element"
         /\ ops[j].image_path = log[k].elem.inpainted_background_path[1]
    /\ k < Len(log) =>
         /\ log[k + 1].depth = log[k].depth + 1
         /\ log[k + 1].elem = log[k].elem.children[1]

C4_TableMissingBackgroundFlattens ==
    \A k \in 1..Len(log) :
        BackgroundFileMissing(k, {"table"}) => IsFlattened(k)

\* C5: an image/figure/chart is composed recursively only if its
\* inpainted_background_path exists as a file; with the path set and the file
\* missing it is flattened and no child operation is emitted.
C5_ImageMissingBackgroundFlattens ==
    \A k \in 1..Len(log) :
        /\ (log[k].elem.element_type \in ImageTypes /\ log[k].recursed)
             => log[k].elem.inpainted_background_path[1] \in files
        /\ BackgroundFileMissing(k, ImageTypes) => IsFlattened(k)

\* the builder calls issued so far, without their outcome
IssuedCalls ==
    [j \in 1..Len(ops) |->
        [op |-> ops[j].op, text |-> ops[j].text,
         image_path |-> ops[j].image_path, bbox |-> ops[j].bbox,
         text_level |-> ops[j].text_level, align |-> ops[j].align]]

IsPrefix(s, t) == Len(s) <= Len(t) /\ s = SubSeq(t, 1, Len(s))

\* C6: when an add-text or add-image call raises, the exception does not leave
\* _add_editable_elements_to_slide, and the calls issued for every later
\* sibling and its subtree are those of the run in which no call raises.
C6_FaultIsolation ==
    /\ pc # "raised"
    /\ IsPrefix(IssuedCalls, ComposeCalls(root_elements, 0))
    /\ pc = "returned" => IssuedCalls = ComposeCalls(root_elements, 0)

\* the call returned after an add-text and an add-image call raised, one of
\* them below a parent, and calls for later siblings followed each of them
C6_Witness ==
    /\ pc = "returned"
    /\ \E j1, j2 \in 1..Len(ops) :
         /\ ~ops[j1].ok /\ ops[j1].op = "add_text_element"
         /\ ~ops[j2].ok /\ ops[j2].op = "add_image_element"
         /\ log[ops[j1].visit].depth > 0
         /\ \E j3 \in 1..Len(ops) :
              /\ j3 > j1 /\ j3 > j2
              /\ ops[j3].ok
              /\ log[ops[j3].visit].depth = 0

-----------------------------------------------------------------------------
(* Properties of create_editable_pptx_with_recursive_analysis, checked under Spec *)

\* the analysis of some page raised
AnalysisFailed == \E idx \in DOMAIN futures : futures[idx].exc

\* C7: when the analysis of a page raises, the call raises: no builder and no
\* slide is created, no call reaches a builder, no bytes are returned and no
\* output file is saved, whatever the other pages' analyses gave.
C7_BatchFailFast ==
    AnalysisFailed =>
        /\ pc \in {"collect", "unwind", "raised"}
        /\ ~builder
        /\ slides = 0
        /\ ops = <<>>
        /\ files = ExistingFiles
        /\ outcome \in {"running", "Exception"}
        /\ pc = "raised" => outcome = "Exception"
        /\ pc # "raised" => ENABLED Next

\* the call raised after the analysis of one page raised and that of another
\* page succeeded and was collected
C7_Witness ==
    /\ pc = "raised"
    /\ outcome = "Exception"
    /\ AnalysisFailed
    /\ \E idx \in DOMAIN results : results[idx] # None

\* the page a slide is built from, when the pages were analysed by the call
AnalysedPage(s) == futures[s].result[1]

\* C8: whatever the order in which the analyses finish, the result at index i
\* is the analysis of image_paths[i], and slide i is built from page i.
C8_OrderPreserved ==
    /\ \A idx \in DOMAIN results :
         results[idx] # None =>
            /\ results[idx] = futures[idx].result
            /\ results[idx][1].image_path = image_paths[1][idx]
    /\ futures # <<>> =>
         /\ editable_images # None =>
              \A i \in DOMAIN futures : editable_images[1][i] = AnalysedPage(i)
         /\ \A j \in 1..Len(ops) :
              ops[j].op = "add_picture" =>
                 ops[j].image_path
                    \in {AnalysedPage(ops[j].slide).image_path}
                          \cup { p[1] : p \in {AnalysedPage(ops[j].slide).clean_background} \ {None} }
         /\ \A k \in 1..Len(log) :
              log[k].depth = 0 =>
                 \E e \in DOMAIN AnalysedPage(log[k].slide).elements :
                    AnalysedPage(log[k].slide).elements[e] = log[k].elem

\* the analysis of the second page was collected while that of the first was
\* still running
C8_Witness ==
    /\ Len(results) >= 2
    /\ collected = {2}
    /\ results[2] # None
    /\ results[1] = None
    /\ futures[1].state = "running"

\* the first call issued on slide s
FirstOp(s) ==
    ops[CHOOSE j \in 1..Len(ops) :
            ops[j].slide = s /\ \A i \in 1..(j - 1) : ops[i].slide # s]

\* C9: on every page's slide the first call is the full-slide add-picture of
\* the page background, before any element's call: of clean_background when
\* that is present and its file exists, of the original image_path otherwise.
C9_BackgroundFirst ==
    \A s \in 1..page_idx :
        LET editable_img == editable_images[1][s] IN
        /\ \E j \in 1..Len(ops) : ops[j].slide = s
        /\ FirstOp(s).op = "add_picture"
        /\ FirstOp(s).bbox = <<0, 0, SlideWidthPixels, SlideHeightPixels>>
        /\ FirstOp(s).image_path =
              IF editable_img.clean_background # None
                 /\ editable_img.clean_background[1] \in files
              THEN editable_img.clean_background[1]
              ELSE editable_img.image_path

\* three slides were built, one from a page with an existing clean_background,
\* one from a page without clean_background and one from a page whose
\* clean_background names no file, and elements were placed on them
C9_Witness ==
    /\ pc = "done"
    /\ \E s1, s2, s3 \in 1..page_idx :
         /\ editable_images[1][s1].clean_background = Some("clean.png")
         /\ editable_images[1][s2].clean_background = None
         /\ editable_images[1][s3].clean_background = Some("noclean.png")
    /\ \E j \in 1..Len(ops) : ops[j].op = "add_text_element"

\* C10: a page whose elements list is empty gets exactly one call on its
\* slide, the background's, and no element is visited for it.
C10_EmptyPageOneOp ==
    \A s \in 1..page_idx :
        editable_images[1][s].elements = <<>> =>
            /\ Cardinality({ j \in 1..Len(ops) : ops[j].slide = s }) = 1
            /\ \A j \in 1..Len(ops) :
                 ops[j].slide = s => ops[j].op = "add_picture"
            /\ \A k \in 1..Len(log) : log[k].slide # s

\* the call ended, a page with no elements was built and a page with elements
\* was built after it
C10_Witness ==
    /\ pc = "done"
    /\ \E s \in 1..page_idx :
         /\ editable_images[1][s].elements = <<>>
         /\ s < page_idx
         /\ editable_images[1][s + 1].elements # <<>>

\* C18: during page analysis at most max_workers page analyses are in
\* progress at any moment, and every page in image_paths is submitted for
\* analysis exactly once.
C18_BoundedPool ==
    /\ Cardinality(Running) <= max_workers
    /\ editability_service =>
         /\ DOMAIN futures = 1..Len(image_paths[1])
         /\ \A idx \in DOMAIN futures :
               futures[idx].img_path = image_paths[1][idx]
    /\ ~editability_service => futures = <<>>

\* two analyses run on a pool of two threads while a third page waits
C18_Witness ==
    /\ max_workers = 2
    /\ Cardinality(Running) = 2
    /\ Pending # {}
    /\ Len(image_paths[1]) = 3

\* what holds of a call that was handed the list given: nothing of the
\* analysis exists, and the slides follow the list, entry by entry
BuiltFromGiven(given) ==
    /\ futures = <<>> /\ results = <<>> /\ collected = {}
    /\ ~editability_service
    /\ editable_images = given
    /\ slides = page_idx
    /\ slides <= Len(given[1])
    /\ pc = "compose" => root_elements = given[1][page_idx].elements
    /\ pc = "done" => slides = Len(given[1])
    /\ \A j \in 1..Len(ops) :
         /\ ops[j].slide \in 1..slides
         /\ j < Len(ops) => ops[j].slide <= ops[j + 1].slide
         /\ ops[j].op = "add_picture" =>
               LET entry == given[1][ops[j].slide]
               IN  \/ ops[j].image_path = entry.image_path
                   \/ entry.clean_background = Some(ops[j].image_path)

\* C21: when create_editable_pptx_with_recursive_analysis is given
\* editable_images (not None), no page analysis is submitted or run and no
\* analysis service is constructed; the slides are built from the supplied
\* list, one slide per entry in list order.
C21_GivenSkipsAnalysis ==
    \A given \in EditableImagesArgs \ {None} :
        (editable_images = given) => [](BuiltFromGiven(given))

\* the call was handed image_paths and a list of two entries, and is done with
\* two slides and no analysis service
C21_Witness ==
    /\ pc = "done"
    /\ TruthyList(image_paths)
    /\ ~editability_service
    /\ futures = <<>>
    /\ slides = 2
    /\ \E j \in 1..Len(ops) : ops[j].slide = 2

\* the work item ran to its end: it returned a result or it raised
Finished(f) == f.state = "done" /\ (f.result # None \/ f.exc)

\* C28: when one page's analysis raises, the analyses of the other pages
\* already submitted are not cancelled: while the exception unwinds, a queued
\* analysis still starts as soon as a pool thread is idle, and the call raises
\* to its caller only after every submitted analysis has finished, succeeded
\* or failed, so no worker is running when the call returns.
C28_NoCancellation ==
    /\ (pc = "unwind" /\ Pending # {}
          /\ Cardinality(Running) < max_workers) =>
            ENABLED (\E idx \in Pending : WorkerStart(idx))
    /\ (pc = "unwind" /\ Running # {}) =>
            ENABLED (\E idx \in Running : WorkerFinish(idx) \/ WorkerRaise(idx))
    /\ (pc = "raised" /\ AnalysisFailed) =>
            /\ Running = {}
            /\ Pending = {}
            /\ \A idx \in DOMAIN futures : Finished(futures[idx])

\* with one pool thread and three pages the first analysis raised and was
\* the only one collected; the call raised after the two analyses queued
\* behind it had run and returned
C28_Witness ==
    /\ pc = "raised"
    /\ outcome = "Exception"
    /\ max_workers = 1
    /\ DOMAIN futures = 1..3
    /\ futures[1].exc
    /\ collected = {1}
    /\ futures[2].result # None
    /\ futures[3].result # None

-----------------------------------------------------------------------------
(* Further properties of the composition engine, checked under SpecCompose *)

\* the element carries no text to place: content absent, empty or white space
NoText(elem) ==
    IF elem.content = None THEN TRUE
    ELSE \A c \in 1..Len(elem.content[1]) : elem.content[1][c] \in WhiteSpace

\* C11: a text, title or table_cell element whose content is absent, empty or
\* whitespace-only produces no builder call and no error, at any depth, and
\* the loop goes on with the next sibling.
C11_BlankTextNoOp ==
    \A k \in 1..Len(log) :
        (log[k].elem.element_type \in {"text", "title", "table_cell"}
           /\ NoText(log[k].elem)) =>
            /\ OpsOfVisit(k) = {}
            /\ pc # "raised"
            /\ ~log[k].recursed
            /\ (k < Len(log) /\ log[k].i < log[k].n) =>
                  /\ log[k + 1].depth = log[k].depth
                  /\ log[k + 1].i = log[k].i + 1
            /\ (pc = "returned" /\ log[k].i < log[k].n) => k < Len(log)

\* the call returned after it passed, below a parent, a table_cell of white
\* space, a title without content and a text of length 0, and placed the
\* sibling that follows them
C11_Witness ==
    /\ pc = "returned"
    /\ \E k1, k2, k3 \in 1..Len(log) :
         /\ log[k1].depth > 0 /\ log[k1].elem = KidBlank
         /\ log[k2].depth > 0 /\ log[k2].elem = KidAbsent
         /\ log[k3].depth > 0 /\ log[k3].elem = KidEmpty
         /\ \E j \in 1..Len(ops) :
              /\ ops[j].visit = k3 + 1
              /\ ops[j].op = "add_text_element"

\* floor(coordinate * scale) for a scale given as a fraction
FloorScaled(coord, scale) == (coord * scale[1]) \div scale[2]

\* t is coordinate * scale with the fraction cut off, toward zero
IsTruncScaled(t, coord, scale) ==
    LET n == coord * scale[1]
        d == scale[2]
    IN  IF n >= 0 THEN d * t <= n /\ n < d * (t + 1)
        ELSE d * t >= n /\ n > d * (t - 1)

\* the box the k-th visited element is placed by
PlacedBBox(k) == SelectBBox(log[k].elem, log[k].depth)

\* C12 as stated: for every element at every depth and every pair
\* (scale_x, scale_y), each placed coordinate equals floor(coordinate * scale),
\* x0 and x1 scaled by scale_x, y0 and y1 by scale_y, with the scale factors
\* of the outermost call at every depth.
C12_ScaledByFloor ==
    \A k \in 1..Len(log) :
        /\ log[k].bbox_list = << FloorScaled(PlacedBBox(k).x0, scale_x),
                                 FloorScaled(PlacedBBox(k).y0, scale_y),
                                 FloorScaled(PlacedBBox(k).x1, scale_x),
                                 FloorScaled(PlacedBBox(k).y1, scale_y) >>
        /\ \A j \in OpsOfVisit(k) : ops[j].bbox = log[k].bbox_list

\* C12, amended: each placed coordinate is coordinate * scale cut off toward
\* zero, which is floor(coordinate * scale) wherever the product is not
\* negative; x0 and x1 are scaled by scale_x, y0 and y1 by scale_y, with the
\* scale factors of the outermost call at every depth.
C12_ScaledByTruncation ==
    \A k \in 1..Len(log) :
        LET b == PlacedBBox(k)
            l == log[k].bbox_list
            coords == <<b.x0, b.y0, b.x1, b.y1>>
            scales == <<scale_x, scale_y, scale_x, scale_y>>
        IN  /\ Len(l) = 4
            /\ \A c \in 1..4 :
                  /\ IsTruncScaled(l[c], coords[c], scales[c])
                  /\ coords[c] >= 0 => l[c] = FloorScaled(coords[c], scales[c])
            /\ \A j \in OpsOfVisit(k) : ops[j].bbox = l

\* a call was issued two levels below the outermost call, under scale factors
\* that differ from each other and from 1, for a box with a coordinate whose
\* product with its scale factor is no integer
C12_Witness ==
    /\ scale_x # scale_y
    /\ \E j \in 1..Len(ops) :
         LET b == PlacedBBox(ops[j].visit) IN
         /\ log[ops[j].visit].depth = 2
         /\ (b.x0 * scale_x[1]) % scale_x[2] # 0
         /\ (b.y1 * scale_y[1]) % scale_y[2] # 0

\* the path is set and names a file on disk
SetAndExists(path) ==
    IF path = None THEN FALSE
    ELSE path[1] # "" /\ path[1] \in files

\* C13: a table, image, figure or chart element with empty children emits
\* exactly one call for itself: add-image(image_path, placed bbox) when
\* image_path is set and the file exists, otherwise add-placeholder(placed
\* bbox).
C13_ChildlessVisualOneOp ==
    \A k \in 1..Len(log) :
        (log[k].elem.element_type \in VisualTypes
           /\ log[k].elem.children = <<>>) =>
            /\ Cardinality(OpsOfVisit(k)) = 1
            /\ \A j \in OpsOfVisit(k) :
                  /\ ops[j].bbox = BBoxList(PlacedBBox(k), scale_x, scale_y)
                  /\ IF SetAndExists(log[k].elem.image_path)
                     THEN /\ ops[j].op = "add_image_element"
                          /\ ops[j].image_path = log[k].elem.image_path[1]
                     ELSE ops[j].op = "add_image_placeholder"

\* the call returned after a childless element whose image_path names no file
\* got a placeholder although its inpainted background exists
C13_Witness ==
    /\ pc = "returned"
    /\ \E j \in 1..Len(ops) :
         LET e == log[ops[j].visit].elem IN
         /\ e.element_type \in VisualTypes
         /\ e.children = <<>>
         /\ e.image_path = Some("lost.png")
         /\ SetAndExists(e.inpainted_background_path)
         /\ ops[j].op = "add_image_placeholder"

\* the file the visited element draws for itself: image_path where it is
\* flattened, inpainted_background_path where it is composed recursively
OwnFile(k) ==
    IF log[k].recursed THEN log[k].elem.inpainted_background_path
    ELSE log[k].elem.image_path

\* C14: no visual element is dropped for a missing asset: whenever the file a
\* table, image, figure or chart element would draw for itself does not exist
\* and no builder call raises, a call is issued for that element at its
\* placed bbox, add-image of an existing file or add-placeholder.
C14_NoSilentDrop ==
    \A k \in 1..Len(log) :
        (/\ log[k].elem.element_type \in VisualTypes
         /\ ~SetAndExists(OwnFile(k))
         /\ \A j \in 1..Len(ops) : ops[j].ok) =>
            \E j \in OpsOfVisit(k) :
                /\ ops[j].bbox = log[k].bbox_list
                /\ \/ ops[j].op = "add_image_placeholder"
                   \/ /\ ops[j].op = "add_image_element"
                      /\ ops[j].image_path \in files

\* the last element visited up to the k-th at nesting level d
LastAt(k, d) ==
    CHOOSE m \in 1..k :
        /\ log[m].depth = d
        /\ \A m2 \in (m + 1)..k : log[m2].depth # d

\* the list the k-th visited element is a member of
ListOf(k) ==
    IF log[k].depth = 0 THEN root_elements
    ELSE log[LastAt(k, log[k].depth - 1)].elem.children

\* the m-th visited element is below the k-th in the tree
IsBelow(m, k) ==
    /\ m > k
    /\ \A m2 \in (k + 1)..m : log[m2].depth > log[k].depth

\* the m-th visited element is a later member of the list the k-th is in
LaterSibling(k, m) ==
    /\ k < m
    /\ log[m].depth = log[k].depth
    /\ \A m2 \in k..m : log[m2].depth >= log[k].depth

\* C15: emission order is a pre-order walk of the tree: the calls of sibling i
\* and its whole subtree all precede those of sibling i+1, and the background
\* add-image of a recursively composed parent precedes every call of its
\* descendants.
C15_PreOrder ==
    /\ \A j \in 1..(Len(ops) - 1) : ops[j].visit < ops[j + 1].visit
    /\ log # <<>> =>
         /\ log[1].depth = 0 /\ log[1].i = 1
         /\ log[1].elem = root_elements[1]
    /\ \A k \in 1..(Len(log) - 1) :
         IF log[k].recursed
         THEN /\ log[k + 1].depth = log[k].depth + 1
              /\ log[k + 1].i = 1
              /\ log[k + 1].elem = log[k].elem.children[1]
         ELSE LET d == log[k + 1].depth IN
              /\ d <= log[k].depth
              /\ \A d2 \in (d + 1)..log[k].depth :
                    log[LastAt(k, d2)].i = log[LastAt(k, d2)].n
              /\ log[k + 1].i = log[LastAt(k, d)].i + 1
              /\ log[k + 1].elem = ListOf(k + 1)[log[k + 1].i]
    /\ \A j1, j2 \in 1..Len(ops) :
         /\ (log[ops[j1].visit].recursed
               /\ IsBelow(ops[j2].visit, ops[j1].visit)) => j1 < j2
         /\ LaterSibling(ops[j1].visit, ops[j2].visit) =>
               /\ j1 < j2
               /\ \A j3 \in 1..Len(ops) :
                     IsBelow(ops[j3].visit, ops[j1].visit) => j3 < j2

\* the call returned after it placed the background of a parent, then a
\* child of that parent, and then the parent's next sibling, itself a parent
\* placed before its child
C15_Witness ==
    /\ pc = "returned"
    /\ \E j1, j2, j3, j4 \in 1..Len(ops) :
         /\ j1 < j2 /\ j2 < j3 /\ j3 < j4
         /\ log[ops[j1].visit].recursed
         /\ IsBelow(ops[j2].visit, ops[j1].visit)
         /\ LaterSibling(ops[j1].visit, ops[j3].visit)
         /\ log[ops[j3].visit].recursed
         /\ IsBelow(ops[j4].visit, ops[j3].visit)

\* the nodes of the tree whose ancestors are all composed recursively, each
\* with its nesting level, in the order of the tree
RECURSIVE Walk(_, _)
Walk(elems, level) ==
    IF elems = <<>> THEN <<>>
    ELSE LET elem == Head(elems)
             below == IF ElementPlan(elem, level).recurse
                      THEN Walk(elem.children, level + 1)
                      ELSE <<>>
         IN  <<[elem |-> elem, depth |-> level]>> \o below
               \o Walk(Tail(elems), level)

\* the elements the loop has visited, each with the depth argument of the call
\* that visited it
Visits == [k \in 1..Len(log) |-> [elem |-> log[k].elem, depth |-> log[k].depth]]

\* C20: for every finite acyclic element tree the call terminates, processes
\* each node at most once and reaches every node whose ancestors are all
\* recursively composed, whatever the depth of the tree; the depth argument of
\* a node equals its nesting level.
C20_TerminatesAndCovers ==
    /\ <>(pc = "returned")
    /\ [](IsPrefix(Visits, Walk(root_elements, 0)))
    /\ [](pc = "returned" => Visits = Walk(root_elements, 0))

\* the call returned after it visited a node two levels below the outermost
\* list and five nodes or more in all
C20_Witness ==
    /\ pc = "returned"
    /\ \E k \in 1..Len(log) : log[k].depth = MaxNest
    /\ Len(log) >= 5

\* the visited element has something of its own to place: text that is not
\* blank, or a picture or placeholder for a childless visual element
HasOwnCall(k) ==
    \/ /\ log[k].elem.element_type \in {"text", "title", "table_cell"}
       /\ ~NoText(log[k].elem)
    \/ /\ log[k].elem.element_type \in VisualTypes
       /\ log[k].elem.children = <<>>

\* C22: for an element processed at depth > 0 whose bbox_global is absent,
\* placement falls back to the local bbox: the element is still placed (not
\* skipped, no error) with geometry computed from bbox.
C22_FallbackToLocalBBox ==
    \A k \in 1..Len(log) :
        (log[k].depth > 0 /\ log[k].elem.bbox_global = None) =>
            /\ pc # "raised"
            /\ log[k].bbox_list = BBoxList(log[k].elem.bbox, scale_x, scale_y)
            /\ \A j \in OpsOfVisit(k) : ops[j].bbox = log[k].bbox_list
            /\ HasOwnCall(k) => Cardinality(OpsOfVisit(k)) = 1

\* calls were issued at depth 1 and at depth 2 for elements without
\* bbox_global, under scale factors other than 1
C22_Witness ==
    /\ scale_x # <<1, 1>>
    /\ \A d \in 1..2 : \E j \in 1..Len(ops) :
         /\ log[ops[j].visit].depth = d
         /\ log[ops[j].visit].elem.bbox_global = None
         /\ ops[j].bbox = BBoxList(log[ops[j].visit].elem.bbox, scale_x, scale_y)
         /\ ops[j].bbox # <<0, 0, 0, 0>>

\* C23 as stated: an image/figure/chart element with children and an
\* inpainted background, one of whose children covers exactly 85% of the
\* parent's area (850 of 1000), is flattened to its original image rather
\* than composed recursively.
C23_Exactly85Flattens ==
    \A k \in 1..Len(log) :
        (/\ HasBackground(k, ImageTypes)
         /\ PlacedArea(k) > 0
         /\ \E c \in 1..Len(log[k].elem.children) :
               100 * AreaOfChild(log[k].elem.children[c]) = 85 * PlacedArea(k))
          => IsFlattened(k)

\* C23, amended: such an element whose largest child covers exactly 85% of
\* its area is composed recursively, background first and the children at
\* depth+1; only a child of more than 85% flattens it.
C23_Exactly85Recurses ==
    \A k \in 1..Len(log) :
        (/\ HasBackground(k, ImageTypes)
         /\ PlacedArea(k) > 0
         /\ \E c \in 1..Len(log[k].elem.children) :
               100 * AreaOfChild(log[k].elem.children[c]) = 85 * PlacedArea(k)
         /\ \A c \in 1..Len(log[k].elem.children) :
               100 * AreaOfChild(log[k].elem.children[c]) <= 85 * PlacedArea(k))
          => IsRecursive(k)

\* the call returned after it placed the background of a parent of area 1000
\* and then the text of its only child, of area 850
C23_Witness ==
    /\ pc = "returned"
    /\ \E j1, j2 \in 1..Len(ops) :
         /\ log[ops[j1].visit].elem.element_type \in ImageTypes
         /\ PlacedArea(ops[j1].visit) = 1000
         /\ log[ops[j1].visit].elem.children = <<Kid850>>
         /\ ops[j1].op = "add_image_element" /\ ops[j1].ok
         /\ ops[j2].visit = ops[j1].visit + 1
         /\ ops[j2].op = "add_text_element" /\ ops[j2].ok
         /\ log[ops[j2].visit].depth = log[ops[j1].visit].depth + 1

\* the j-th call is the add-image of the inpainted background of an element
\* with children, and it raised
BackgroundRaised(j) ==
    LET e == log[ops[j].visit].elem IN
    /\ ~ops[j].ok
    /\ ops[j].op = "add_image_element"
    /\ e.element_type \in VisualTypes
    /\ e.children # <<>>
    /\ e.inpainted_background_path = Some(ops[j].image_path)

\* the calls that placed something, each with its position among the calls issued
PlacedCalls == { <<j, IssuedCalls[j]>> : j \in { i \in 1..Len(ops) : ops[i].ok } }

\* C24: when the add-image of a recursively composed parent's background
\* raises, the parent's children are still composed at depth+1: compared with
\* the failure-free run, the operation sequence loses exactly that one
\* background operation and nothing else.
C24_BackgroundFailureKeepsChildren ==
    \A j \in 1..Len(ops) :
        BackgroundRaised(j) =>
            LET k == ops[j].visit
                free == ComposeCalls(root_elements, 0)
            IN  /\ pc # "raised"
                /\ log[k].recursed
                /\ k < Len(log) =>
                      /\ log[k + 1].depth = log[k].depth + 1
                      /\ log[k + 1].elem = log[k].elem.children[1]
                /\ pc = "returned" =>
                      /\ k < Len(log)
                      /\ PlacedCalls =
                           { <<i, free[i]>> :
                               i \in { i2 \in 1..Len(free) : i2 \in DOMAIN ops => ops[i2].ok } }
                      /\ (\A i \in 1..Len(ops) : i # j => ops[i].ok) =>
                           PlacedCalls = { <<i, free[i]>> : i \in (1..Len(free)) \ {j} }

\* the call returned after the background of a parent raised, the only call
\* that did, and the text of two of the parent's children was placed
C24_Witness ==
    /\ pc = "returned"
    /\ \E j \in 1..Len(ops) :
         /\ BackgroundRaised(j)
         /\ \A i \in 1..Len(ops) : i # j => ops[i].ok
         /\ \E i1, i2 \in 1..Len(ops) :
              /\ i1 # i2
              /\ ops[i1].op = "add_text_element"
              /\ ops[i2].op = "add_text_element"
              /\ log[ops[i1].visit].depth = log[ops[j].visit].depth + 1
              /\ log[ops[i2].visit].depth = log[ops[j].visit].depth + 1
              /\ IsBelow(ops[i1].visit, ops[j].visit)
              /\ IsBelow(ops[i2].visit, ops[j].visit)

\* C25: the dominant-child heuristic is not applied to table elements: a
\* table with non-empty children and an existing inpainted background is
\* composed recursively even when one child covers more than 85% of the
\* table's area.
C25_TableIgnoresDominantChild ==
    \A k \in 1..Len(log) :
        (/\ HasBackground(k, {"table"})
         /\ \E c \in 1..Len(log[k].elem.children) :
               100 * AreaOfChild(log[k].elem.children[c]) > 85 * PlacedArea(k))
          => IsRecursive(k)

\* the call returned after it placed the background of a table of area 1000
\* and then the text of its child of area 851
C25_Witness ==
    /\ pc = "returned"
    /\ \E j1, j2 \in 1..Len(ops) :
         /\ log[ops[j1].visit].elem.element_type = "table"
         /\ PlacedArea(ops[j1].visit) = 1000
         /\ log[ops[j1].visit].elem.children = <<Kid851>>
         /\ ops[j1].op = "add_image_element"
         /\ ops[j1].image_path = "bg.png"
         /\ ops[j2].visit = ops[j1].visit + 1
         /\ ops[j2].op = "add_text_element"
         /\ log[ops[j2].visit].depth = log[ops[j1].visit].depth + 1

\* C26: an element whose type is not one of text, title, table_cell, table,
\* image, figure, chart emits no call and raises no error; its children are
\* never visited, and the same holds for the children of text, title and
\* table_cell elements.
C26_OnlyVisualsDescend ==
    \A k \in 1..Len(log) :
        log[k].elem.element_type \notin VisualTypes =>
            /\ pc # "raised"
            /\ ~log[k].recursed
            /\ \A m \in 1..Len(log) : ~IsBelow(m, k)
            /\ log[k].elem.element_type \notin {"text", "title", "table_cell"}
                  => OpsOfVisit(k) = {}

\* the call returned after it passed, below a table, an element of another
\* type and a table_cell, both with children, a picture and a background, and
\* placed the cell's text and the next sibling, all at depth 1
C26_Witness ==
    /\ pc = "returned"
    /\ \E k \in 1..(Len(log) - 2) :
         /\ log[k].depth = 1
         /\ log[k].elem.element_type = "group"
         /\ log[k].elem.children # <<>>
         /\ OpsOfVisit(k) = {}
         /\ log[k + 1].depth = 1
         /\ log[k + 1].elem.element_type = "table_cell"
         /\ log[k + 1].elem.children # <<>>
         /\ \E j \in OpsOfVisit(k + 1) : ops[j].op = "add_text_element"
         /\ log[k + 2].depth = 1
         /\ log[k + 2].elem = Kid851
         /\ OpsOfVisit(k + 2) # {}

\* t is s without the white space at its two ends
IsTrimOf(t, s) ==
    /\ t # <<>>
    /\ t[1] \notin WhiteSpace
    /\ t[Len(t)] \notin WhiteSpace
    /\ \E a \in 0..(Len(s) - Len(t)) :
         /\ SubSeq(s, a + 1, a + Len(t)) = t
         /\ \A c \in (1..a) \cup ((a + Len(t) + 1)..Len(s)) : s[c] \in WhiteSpace

\* C27: every text-bearing element with non-empty trimmed content emits
\* exactly one add-text carrying the trimmed content at the placed bbox: with
\* title emphasis if and only if its type is title, and with centre alignment
\* and no emphasis if and only if its type is table_cell; a table_cell is
\* handled this way also at depth 0.
C27_OneAddText ==
    \A k \in 1..Len(log) :
        (log[k].elem.element_type \in {"text", "title", "table_cell"}
           /\ ~NoText(log[k].elem)) =>
            /\ Cardinality(OpsOfVisit(k)) = 1
            /\ \A j \in OpsOfVisit(k) :
                  /\ ops[j].op = "add_text_element"
                  /\ IsTrimOf(ops[j].text, log[k].elem.content[1])
                  /\ ops[j].bbox = BBoxList(PlacedBBox(k), scale_x, scale_y)
                  /\ ops[j].text_level = Some("title")
                        <=> log[k].elem.element_type = "title"
                  /\ (ops[j].align = Some("center") /\ ops[j].text_level = None)
                        <=> log[k].elem.element_type = "table_cell"
                  /\ log[k].elem.element_type = "text"
                        => (ops[j].text_level = Some("default")
                              /\ ops[j].align = None)

\* a table_cell at depth 0 whose content has white space at both ends was
\* placed centred, without emphasis, with the text between
C27_Witness ==
    \E j \in 1..Len(ops) :
        /\ log[ops[j].visit].depth = 0
        /\ log[ops[j].visit].elem.element_type = "table_cell"
        /\ log[ops[j].visit].elem.content = Some(TextPadded)
        /\ ops[j].ok
        /\ ops[j].text = TextHi
        /\ ops[j].align = Some("center")
        /\ ops[j].text_level = None

-----------------------------------------------------------------------------
(* inpaint_providers.py: DefaultInpaintProvider.inpaint_regions and
   GenerativeEditInpaintProvider.inpaint_regions *)

\* the defaults of kwargs.get('expand_pixels', 10), kwargs.get('merge_threshold', 20)
DefaultExpandPixels == 10
DefaultMergeThreshold == 20

KwargKeys == {"expand_pixels", "merge_bboxes", "merge_threshold",
              "save_mask_path", "full_page_image", "crop_box",
              "aspect_ratio", "resolution"}

\* **kwargs: a key that is not passed is None
NoKwargs == [key \in KwargKeys |-> None]
GivenKwargs ==
    [key \in KwargKeys |->
        CASE key = "expand_pixels" -> Some(5)
          [] key = "merge_bboxes" -> Some(TRUE)
          [] key = "merge_threshold" -> Some(30)
          [] key = "save_mask_path" -> Some("mask.png")
          [] key = "full_page_image" -> Some("page")
          [] key = "crop_box" -> Some(<<0, 0, 40, 25>>)
          [] key = "aspect_ratio" -> Some("4:3")
          [] key = "resolution" -> Some("1K")]
KwargsArgs == {NoKwargs, GivenKwargs}

\* kwargs.get(key, default)
Get(kwargs, key, default) ==
    IF kwargs[key] = None THEN default ELSE kwargs[key][1]

\* the providers: DefaultInpaintProvider(inpainting_service) and
\* GenerativeEditInpaintProvider(ai_service, aspect_ratio="16:9", resolution="2K")
DefaultProvider == [kind |-> "default", aspect_ratio |-> "", resolution |-> ""]
GenerativeProvider ==
    [kind |-> "generative", aspect_ratio |-> "16:9", resolution |-> "2K"]
Providers == {DefaultProvider, GenerativeProvider}

\* the arguments image, bboxes and types
Images == {"imageA", "imageB"}
RegionArgs == { <<<<>>, None>>,
                << <<<<3, 5, 8, 11>>, <<0, 0, 40, 25>>>>,
                   Some(<<"text", "image">>) >> }

\* what the world answers to a step of a call: kind names the answer, image
\* the picture it carries, if any
Answer(kind, image) == [kind |-> kind, image |-> image]

\* what inpainting_service.remove_regions_by_bboxes does: it raises, returns
\* None, or returns a picture
RemoveAnswers == {Answer("raises", ""), Answer("none", ""), Answer("PIL", "removed")}

\* what ai_service.edit_image does: it raises, returns nothing, a PIL image,
\* an image object that wraps one as _pil_image, or some other object
EditAnswers == {Answer("raises", ""), Answer("none", ""), Answer("PIL", "clean"),
                Answer("genai", "clean"), Answer("other", "")}

\* the names NamedTemporaryFile gives out, a fresh one per call
TmpNames == <<"tmp1.png", "tmp2.png", "tmp3.png", "tmp4.png">>

\* what get_clean_background_prompt() returns
CleanBackgroundPrompt == "clean_background_prompt"

\* mutant of InTryGenerative: only the call of the AI service is guarded
InTryGenerative_EditOnly(step) == step = "edit_image"

\* the steps of GenerativeEditInpaintProvider.inpaint_regions that sit inside
\* try / except Exception (lines 160-201)
InTryGenerative(step) ==
    step \in {"prompt", "tmpfile", "save", "edit_image", "convert"}

\* the step of DefaultInpaintProvider.inpaint_regions inside try / except
\* Exception (lines 92-106)
InTryDefault(step) == step = "remove_regions_by_bboxes"

\* the variables inpaint_regions does not touch
NotInpaintVars == <<image_paths, editable_images, output_file, max_workers,
                    futures, results, collected, builder, slides, page_idx,
                    root_elements, stack, scale_x, scale_y, ops, log, faults,
                    editability_service>>

\* inpaint_regions(image, bboxes, types, **kwargs) is called on a provider
InpaintCall ==
    /\ pc = "inpaint_idle"
    /\ Len(inpaint_calls) < MaxCalls
    /\ \E self \in Providers, image \in Images, args \in RegionArgs,
          kwargs \in KwargsArgs :
         /\ inpaint' = [active |-> TRUE, self |-> self, image |-> image,
                        bboxes |-> args[1], types |-> args[2],
                        kwargs |-> kwargs, aspect_ratio |-> None,
                        resolution |-> None, edit_instruction |-> None,
                        tmp_path |-> None, clean_bg_image |-> None,
                        requests |-> <<>>, env |-> <<>>]
         /\ pc' = IF self.kind = "default" THEN "default_call" ELSE "gen_prompt"
    /\ outcome' = "running"
    /\ UNCHANGED <<files, inpaint_calls>>
    /\ UNCHANGED NotInpaintVars

\* the call returns result to its caller
Returned(call, result) ==
    /\ inpaint_calls' = Append(inpaint_calls,
          [kind |-> call.self.kind, image |-> call.image,
           bboxes |-> call.bboxes, types |-> call.types,
           kwargs |-> call.kwargs, requests |-> call.requests,
           env |-> call.env, tmp_path |-> call.tmp_path, result |-> result])
    /\ inpaint' = NoCall
    /\ pc' = "inpaint_idle"
    /\ outcome' = IF result = None THEN "None" ELSE "image"

\* a step raised: the except clause returns None, or the exception leaves the call
Raised(call, in_try) ==
    IF in_try
    THEN Returned(call, None)
    ELSE /\ inpaint' = call
         /\ pc' = "raised"
         /\ outcome' = "Exception"
         /\ UNCHANGED inpaint_calls

\* DefaultInpaintProvider.inpaint_regions, lines 85-106
DefaultInpaint ==
    /\ pc = "default_call"
    /\ LET request ==
             [service |-> "remove_regions_by_bboxes",
              image |-> inpaint.image,
              bboxes |-> inpaint.bboxes,
              expand_pixels |-> Get(inpaint.kwargs, "expand_pixels", DefaultExpandPixels),
              merge_bboxes |-> Get(inpaint.kwargs, "merge_bboxes", FALSE),
              merge_threshold |-> Get(inpaint.kwargs, "merge_threshold", DefaultMergeThreshold),
              save_mask_path |-> inpaint.kwargs["save_mask_path"],
              full_page_image |-> inpaint.kwargs["full_page_image"],
              crop_box |-> inpaint.kwargs["crop_box"]]
       IN  \E answer \in RemoveAnswers :
             LET call == [inpaint EXCEPT !.requests = Append(@, request),
                                         !.env = Append(@, answer)]
             IN  IF answer.kind = "raises"
                 THEN Raised(call, InTryDefault("remove_regions_by_bboxes"))
                 ELSE Returned(call, IF answer.kind = "none" THEN None
                                     ELSE Some(answer.image))
    /\ UNCHANGED files
    /\ UNCHANGED NotInpaintVars

\* lines 157-164: the keyword arguments, then the import of services.prompts
\* and get_clean_background_prompt()
GenPrompt ==
    /\ pc = "gen_prompt"
    /\ LET call == [inpaint EXCEPT
                      !.aspect_ratio =
                          Some(Get(inpaint.kwargs, "aspect_ratio", inpaint.self.aspect_ratio)),
                      !.resolution =
                          Some(Get(inpaint.kwargs, "resolution", inpaint.self.resolution))]
       IN  \E ok \in BOOLEAN :
             IF ok
             THEN /\ inpaint' = [call EXCEPT
                                   !.edit_instruction = Some(CleanBackgroundPrompt),
                                   !.env = Append(@, Answer("prompt", ""))]
                  /\ pc' = "gen_tmp"
                  /\ UNCHANGED <<inpaint_calls, outcome>>
             ELSE Raised([call EXCEPT !.env = Append(@, Answer("prompt_raises", ""))],
                         InTryGenerative("prompt"))
    /\ UNCHANGED files
    /\ UNCHANGED NotInpaintVars

\* lines 167-169: NamedTemporaryFile(suffix='.png', delete=False) creates a
\* file that stays when the with block closes it, image.save writes to it
GenSaveTmp ==
    /\ pc = "gen_tmp"
    /\ LET tmp == TmpNames[Len(inpaint_calls) + 1] IN
       \E step \in {"tmpfile_raises", "save_raises", "saved"} :
         LET call == [inpaint EXCEPT
                        !.tmp_path = IF step = "tmpfile_raises" THEN None
                                     ELSE Some(tmp),
                        !.env = Append(@, Answer(step, ""))]
         IN  /\ files' = IF step = "tmpfile_raises" THEN files
                         ELSE files \cup {tmp}
             /\ CASE step = "tmpfile_raises" ->
                       Raised(call, InTryGenerative("tmpfile"))
                  [] step = "save_raises" ->
                       Raised(call, InTryGenerative("save"))
                  [] step = "saved" ->
                       /\ inpaint' = call
                       /\ pc' = "gen_edit"
                       /\ UNCHANGED <<inpaint_calls, outcome>>
    /\ UNCHANGED NotInpaintVars

\* mutant of EditRequest: the types of the regions go out as the description
EditRequest_TypesAsDescription(call) ==
    [service |-> "edit_image",
     prompt |-> call.edit_instruction[1],
     current_image_path |-> call.tmp_path[1],
     current_image |-> call.image,
     aspect_ratio |-> call.aspect_ratio[1],
     resolution |-> call.resolution[1],
     original_description |-> call.types,
     additional_ref_images |-> None]

\* the arguments of self.ai_service.edit_image, lines 174-181; current_image
\* is what image.save left at current_image_path
EditRequest(call) ==
    [service |-> "edit_image",
     prompt |-> call.edit_instruction[1],
     current_image_path |-> call.tmp_path[1],
     current_image |-> call.image,
     aspect_ratio |-> call.aspect_ratio[1],
     resolution |-> call.resolution[1],
     original_description |-> None,
     additional_ref_images |-> None]

\* lines 174-181: the call of the AI service
GenEdit ==
    /\ pc = "gen_edit"
    /\ \E answer \in EditAnswers :
         LET call == [inpaint EXCEPT
                        !.requests = Append(@, EditRequest(inpaint)),
                        !.env = Append(@, answer),
                        !.clean_bg_image = Some(answer)]
         IN  IF answer.kind = "raises"
             THEN Raised(call, InTryGenerative("edit_image"))
             ELSE /\ inpaint' = call
                  /\ pc' = "gen_return"
                  /\ UNCHANGED <<inpaint_calls, outcome>>
    /\ UNCHANGED files
    /\ UNCHANGED NotInpaintVars

\* lines 183-197: an empty result and an object of unknown type give None, a
\* PIL image is returned, an object with _pil_image gives that image
GenReturn ==
    /\ pc = "gen_return"
    /\ LET clean_bg_image == inpaint.clean_bg_image[1] IN
       IF clean_bg_image.kind = "none"
       THEN Returned(inpaint, None)
       ELSE IF clean_bg_image.kind = "PIL"
       THEN Returned(inpaint, Some(clean_bg_image.image))
       ELSE IF clean_bg_image.kind = "genai"
       THEN Returned(inpaint, Some(clean_bg_image.image))
       ELSE Returned(inpaint, None)
    /\ UNCHANGED files
    /\ UNCHANGED NotInpaintVars

InitInpaint ==
    /\ pc = "inpaint_idle"
    /\ image_paths = None
    /\ editable_images = None
    /\ output_file = None
    /\ max_workers = 0
    /\ futures = <<>>
    /\ results = <<>>
    /\ collected = {}
    /\ builder = FALSE
    /\ slides = 0
    /\ page_idx = 0
    /\ root_elements = <<>>
    /\ stack = <<>>
    /\ scale_x = <<1, 1>>
    /\ scale_y = <<1, 1>>
    /\ ops = <<>>
    /\ log = <<>>
    /\ faults = 0
    /\ files = ExistingFiles
    /\ editability_service = FALSE
    /\ inpaint = NoCall
    /\ inpaint_calls = <<>>
    /\ outcome = "running"

NextInpaint ==
    InpaintCall \/ DefaultInpaint \/ GenPrompt \/ GenSaveTmp \/ GenEdit \/ GenReturn

SpecInpaint == InitInpaint /\ [][NextInpaint]_vars

-----------------------------------------------------------------------------
(* Properties of the inpaint providers, checked under SpecInpaint *)

\* some step of the returned call raised
SomeStepRaised(call) ==
    \E e \in 1..Len(call.env) :
        call.env[e].kind \in {"raises", "prompt_raises", "tmpfile_raises",
                              "save_raises"}

\* C16: DefaultInpaintProvider.inpaint_regions and
\* GenerativeEditInpaintProvider.inpaint_regions never raise to the caller: an
\* exception raised by the underlying service, by saving the temporary image
\* or by the prompt lookup gives a None return value.
C16_NeverRaises ==
    /\ pc # "raised"
    /\ outcome # "Exception"
    /\ \A c \in 1..Len(inpaint_calls) :
         SomeStepRaised(inpaint_calls[c]) => inpaint_calls[c].result = None

\* a call of the default provider returned None after its service raised, and
\* a call of the generative provider returned None after image.save raised
C16_Witness ==
    \E c1, c2 \in 1..Len(inpaint_calls) :
        /\ inpaint_calls[c1].kind = "default"
        /\ inpaint_calls[c1].env[1].kind = "raises"
        /\ inpaint_calls[c1].result = None
        /\ inpaint_calls[c2].kind = "generative"
        /\ inpaint_calls[c2].env[Len(inpaint_calls[c2].env)].kind = "save_raises"
        /\ inpaint_calls[c2].result = None

\* C17: the temporary image file created by
\* GenerativeEditInpaintProvider.inpaint_regions no longer exists when the
\* call returns, on every exit path: result, empty result, unknown result
\* type, exception.
C17_TmpFileGone ==
    \A c \in 1..Len(inpaint_calls) :
        (inpaint_calls[c].kind = "generative"
           /\ inpaint_calls[c].tmp_path # None) =>
            inpaint_calls[c].tmp_path[1] \notin files

\* the edit request without the name of the temporary file it went through
Seen(request) ==
    [service |-> request.service, prompt |-> request.prompt,
     current_image |-> request.current_image,
     aspect_ratio |-> request.aspect_ratio, resolution |-> request.resolution,
     original_description |-> request.original_description,
     additional_ref_images |-> request.additional_ref_images]

\* C19: GenerativeEditInpaintProvider.inpaint_regions is independent of bboxes
\* and types: two calls with the same image and keyword arguments, answered
\* alike by the steps they take, issue the same single edit request and return
\* the same value, whatever their bboxes and types.
C19_IndependentOfRegions ==
    \A c1, c2 \in 1..Len(inpaint_calls) :
        LET a == inpaint_calls[c1]
            b == inpaint_calls[c2]
        IN  (/\ a.kind = "generative" /\ b.kind = "generative"
             /\ a.image = b.image
             /\ a.kwargs = b.kwargs
             /\ a.env = b.env) =>
               /\ Len(a.requests) <= 1
               /\ Len(a.requests) = Len(b.requests)
               /\ \A r \in 1..Len(a.requests) :
                     Seen(a.requests[r]) = Seen(b.requests[r])
               /\ a.result = b.result

\* two calls of the generative provider with the same image and keyword
\* arguments, one with an empty bboxes list and one with two boxes and their
\* types, each issued its edit request and returned the edited picture
C19_Witness ==
    \E c1, c2 \in 1..Len(inpaint_calls) :
        LET a == inpaint_calls[c1]
            b == inpaint_calls[c2]
        IN  /\ a.kind = "generative" /\ b.kind = "generative"
            /\ a.image = b.image /\ a.kwargs = b.kwargs /\ a.env = b.env
            /\ a.bboxes = <<>> /\ b.bboxes # <<>>
            /\ a.types = None /\ b.types # None
            /\ Len(a.requests) = 1 /\ Len(b.requests) = 1
            /\ a.result # None /\ b.result # None

====
